---------------------------- MODULE Spec2Model ----------------------------
(***************************************************************************)
(* Model of backend/main.py: the sandboxed execution engine                *)
(* (execute_code_safely, limit_resources, LANGUAGE_COMMANDS) as it is run  *)
(* by concurrent request threads of the web server.                        *)
(*                                                                         *)
(* Text values (stdout, stderr, messages, argument vectors) are sequences  *)
(* of string fragments; a fragment of one blank character is whitespace.   *)
(* Timer readings are integers in units of 10 microseconds; the rounded    *)
(* runtime is an integer in units of 100 microseconds (4 decimals).        *)
(***************************************************************************)
EXTENDS Integers, Sequences, FiniteSets, TLC

\* ------------------------------------------------------------------ bounds
NThreads == 2
MaxRequests == 4
\* Bytes the supervisor allocates while it runs one child (argument vector,
\* pipes, captured output).
AllocBytes == 1500

Threads == 1..NThreads

\* ------------------------------------------------------- inputs (bounded)
Snippets == {"print(2+2)", "while True: pass"}
\* The calls made: every snippet with the languages whose branch passes the
\* snippet on (python, javascript) and with the unregistered language; one
\* snippet with java and cpp, whose branches never read it.
Requests ==
    { [code |-> c, language |-> l] : c \in Snippets, l \in {"python", "javascript", "ruby"} }
    \cup { [code |-> "print(2+2)", language |-> l] : l \in {"java", "cpp"} }
\* platform.system(); the module imports resource, so it loads on POSIX hosts.
Platforms == {"Linux", "Darwin"}
\* sys.executable: the absolute path of the interpreter that runs the server.
SysExecutable == "/usr/bin/python3.11"
\* timeit.default_timer() at line 129, in units of 1e-5 s.
StartTimes == {700}
\* How a child that ends before the deadline ends, and how long the run took
\* (in units of 1e-5 s, below the 2 s deadline).
ExitFates ==
    { [returncode |-> 0, stdout |-> <<" ", "4", "\n">>, stderr |-> <<>>,
       duration |-> 12345],
      [returncode |-> 0, stdout |-> <<"a", " ", "b">>, stderr |-> <<"warn", "\n">>,
       duration |-> 12356],
      [returncode |-> 1, stdout |-> <<"4">>, stderr |-> <<"\n", "boom", " ", "x", "\n">>,
       duration |-> 3004],
      [returncode |-> -24, stdout |-> <<>>, stderr |-> <<>>,
       duration |-> 199999] }
\* What str(e) is for an unexpected exception raised by subprocess.run.
UnexpectedErrors ==
    { [type |-> "PermissionError",
       text |-> "[Errno 13] Permission denied: '/srv/app/a.out'"],
      [type |-> "OSError",
       text |-> "[Errno 12] Cannot allocate memory"] }

\* The /analyze requests the clients send: CodeSnippet bodies, lines 60-63.
\* Both programs are ten characters long, so that every leaderboard entry of
\* the model serialises to the same number of characters.
Submissions ==
    { [username |-> << "ann" >>, code |-> << "a_bc = 2+2", "\n" >>,
       language |-> "Python"],
      [username |-> << " ", "bob", " " >>, code |-> << "print(2+2)" >>,
       language |-> "python"],
      [username |-> << " ", "\t" >>, code |-> << "print(2+2)" >>,
       language |-> "python"],
      [username |-> << "ann" >>, code |-> << "\n", " " >>,
       language |-> "python"],
      [username |-> << "bob" >>, code |-> << "print(2+2)" >>,
       language |-> "Ruby"] }

\* The instants, in days, at which datetime.utcnow() is read.
Days == {0, 4, 8}

\* The children's fates the request handler's runs are drawn from.
BoardFates == { f \in ExitFates : f.stdout = << "4" >> \/ f.stderr = << "warn", "\n" >> }

EXPIRATION_DAYS == 7

\* --------------------------------------------------------- pure functions
Whitespace == {" ", "\n", "\t"}

RECURSIVE LStrip(_)
LStrip(s) ==
    IF s # <<>> /\ Head(s) \in Whitespace THEN LStrip(Tail(s)) ELSE s

RECURSIVE RStrip(_)
RStrip(s) ==
    IF s # <<>> /\ s[Len(s)] \in Whitespace
    THEN RStrip(SubSeq(s, 1, Len(s) - 1))
    ELSE s

\* str.strip()
Strip(s) == RStrip(LStrip(s))

\* round(x, 4) on a duration given in 1e-5 s: the nearest 1e-4 s, ties to even.
Round4(u) ==
    LET q == u \div 10
        r == u % 10
    IN  IF r > 5 \/ (r = 5 /\ q % 2 = 1) THEN q + 1 ELSE q

Max(a, b) == IF a >= b THEN a ELSE b

RECURSIVE SumOver(_, _)
SumOver(f, S) ==
    IF S = {} THEN 0
    ELSE LET x == CHOOSE y \in S : TRUE
         IN  f[x] + SumOver(f, S \ {x})

\* str.lower() on the language names the clients send.
Lower(language) ==
    CASE language = "Python" -> "python"
      [] language = "Ruby" -> "ruby"
      [] OTHER -> language

\* Lines 196-201: the four scores of evaluate_comments, evaluate_formatting,
\* evaluate_naming_conventions and evaluate_complexity for the two programs
\* (no comment line; no long or badly indented line; `print` is the one name
\* without an underscore; no braces).
Readability(code) ==
    CASE code = << "a_bc = 2+2" >> ->
            [comments_score |-> 0, formatting_score |-> 100,
             naming_score |-> 100, complexity_score |-> 100]
      [] code = << "print(2+2)" >> ->
            [comments_score |-> 0, formatting_score |-> 100,
             naming_score |-> 98, complexity_score |-> 100]

\* total_score = sum(results.values()) // len(results); line 203.
TotalScore(code) ==
    LET results == Readability(code)
    IN  SumOver(results, DOMAIN results) \div Cardinality(DOMAIN results)

\* sorted(leaderboard, key=score, reverse=True), line 262: a stable sort, the
\* entries of equal score keep their order.
InsertByScore(sorted, e) ==
    LET before == SelectSeq(sorted, LAMBDA x : x.score >= e.score)
        after == SelectSeq(sorted, LAMBDA x : x.score < e.score)
    IN  before \o << e >> \o after

RECURSIVE SortByScore(_)
SortByScore(lb) ==
    IF lb = <<>> THEN <<>>
    ELSE InsertByScore(SortByScore(SubSeq(lb, 1, Len(lb) - 1)), lb[Len(lb)])

\* Mutant: the list is saved whole.
KeepAll(lb) == lb

\* leaderboard[:3]; line 263.
TopThree(lb) == SubSeq(lb, 1, IF Len(lb) < 3 THEN Len(lb) ELSE 3)

\* The list comprehension of lines 272-275.
Unexpired(lb, now) ==
    LET cutoff_time == now - EXPIRATION_DAYS
    IN  SelectSeq(lb, LAMBDA entry : entry.timestamp > cutoff_time)

\* open(LEADERBOARD_FILE, "w"), line 243: the file is cut to no text at all,
\* which json.load rejects.
Truncated == [entries |-> <<>>, blocks |-> 0, parses |-> FALSE]

\* json.dump(leaderboard, f, indent=4) and the close, line 244: the text goes
\* to the start of the file.  What another writer has put there since this
\* writer opened the file is overwritten as far as the new text reaches; a
\* longer text leaves its tail behind, and the file no longer parses.
Written(f, lb) ==
    IF f.blocks <= Len(lb)
    THEN [entries |-> lb, blocks |-> Len(lb), parses |-> TRUE]
    ELSE [entries |-> <<>>, blocks |-> f.blocks, parses |-> FALSE]

\* ------------------------------------------------------------------ state
VARIABLES
    platform,   \* platform.system() of the host
    tracing,    \* tracemalloc: is the (process-wide) tracer on
    traced,     \* tracemalloc: bytes currently traced, per allocating call
    peak,       \* tracemalloc: peak of the traced bytes since the tracer started
    pc,         \* each thread's position in execute_code_safely
    req,        \* each thread's arguments (code, language)
    frame,      \* each thread's locals (start_time, end_time, memory_used)
    proc,       \* each thread's child process and what subprocess.run returned
    fate,       \* what happened to the launch (history of the current call)
    result,     \* the value the thread's call returned
    outcomes,   \* number of values the current call has returned
    escaped,    \* did an exception leave the current call
    spawned,    \* number of child processes the current call spawned
    leaked,     \* has a call returned with the tracer on since it was started
    operator_log, \* what the server has written to its standard output
    clock,      \* datetime.utcnow(), in days
    file,       \* LEADERBOARD_FILE as it is on disk
    requests,   \* number of /analyze requests received
    apc,        \* each thread's position in analyze_code
    snippet,    \* each thread's trimmed submission (username, code, language)
    new_entry,  \* update_leaderboard: the entry the thread appends
    leaderboard, \* update_leaderboard: the list the thread is about to save
    cpc,        \* the position of the cleanup_leaderboard task
    cframe      \* the locals of the cleanup_leaderboard task

execVars == << platform, tracing, traced, peak, pc, req, frame, proc, fate,
               result, outcomes, escaped, spawned, leaked >>

boardVars == << operator_log, clock, file, requests, apc, snippet, new_entry,
                leaderboard, cpc, cframe >>

vars == << execVars, boardVars >>

NoReq == [code |-> "", language |-> ""]
NoFrame == [start_time |-> 0, end_time |-> 0, memory_used |-> 0]
NoProc == [state |-> "none"]
NoResult == [none |-> TRUE]
NoSnippet == [username |-> <<>>, code |-> <<>>, language |-> ""]
NoEntry == [none |-> TRUE]
NoCleanup == [leaderboard |-> <<>>, new_leaderboard |-> <<>>]

\* LEADERBOARD_FILE holding json.dump([], f): lines 54-57.  The text of the
\* file is kept as the list it spells (entries), its length counted in
\* serialised entries (blocks), and whether json.load accepts it (parses).
EmptyLeaderboard == [entries |-> <<>>, blocks |-> 0, parses |-> TRUE]

\* ------------------------------------------------- registry and limiter
LANGUAGE_COMMANDS ==
    [l \in {"python", "javascript", "java", "cpp"} |->
        CASE l = "python" -> << SysExecutable, "-c" >>
          [] l = "javascript" -> << "node", "-e" >>
          [] l = "java" -> << "java", "Main" >>
          [] l = "cpp" -> << "./a.out" >>]

\* Mutant: the membership test of line 124 is dropped.
IsRegisteredAlways(language) == TRUE

\* language not in LANGUAGE_COMMANDS, negated
IsRegistered(language) == language \in DOMAIN LANGUAGE_COMMANDS

\* The limits of a child that inherits them: (RLIM_INFINITY, RLIM_INFINITY).
NoLimits == [RLIMIT_CPU |-> << -1, -1 >>, RLIMIT_AS |-> << -1, -1 >>]

limit_resources ==
    [RLIMIT_CPU |-> << 2, 2 >>,
     RLIMIT_AS |-> << 512 * 1024 * 1024, 512 * 1024 * 1024 >>]

\* preexec_fn=None if is_macos or is_windows else limit_resources
PreexecLimits(system) ==
    IF system = "Darwin" \/ system = "Windows" THEN NoLimits ELSE limit_resources

\* The if/elif chain of execute_code_safely: what subprocess.run is given.
Dispatch(code, language, system) ==
    CASE language = "python" ->
            [argv |-> << "python3", "-c", code >>, rlimits |-> PreexecLimits(system)]
      [] language = "javascript" ->
            [argv |-> << "node", "-e", code >>, rlimits |-> PreexecLimits(system)]
      [] language = "java" ->
            [argv |-> << "java", "Main" >>, rlimits |-> NoLimits]
      [] language = "cpp" ->
            [argv |-> << "./a.out" >>, rlimits |-> NoLimits]
      [] OTHER -> [argv |-> <<>>, rlimits |-> NoLimits]

\* ----------------------------------------------------------- result values
UnsupportedResult == [error |-> << "Unsupported language" >>]

TimeoutResult ==
    [error |-> << "Code execution timed out (infinite loop or too slow)." >>]

NotFoundResult ==
    [error |-> << "Execution file not found. Ensure compilation was successful." >>]

UnexpectedResult(e) == [error |-> << "Unexpected error: ", e.text >>]

RuntimeErrorResult(stderr) == [error |-> << "Runtime Error:\n" >> \o Strip(stderr)]

SuccessResult(f, stdout) ==
    [runtime |-> Round4(f.end_time - f.start_time),
     memory |-> f.memory_used \div 1024,
     output |-> Strip(stdout)]

\* Mutant: only a positive exit code counts as a failure.
ClassificationPositiveOnly(p, f) ==
    IF p.returncode > 0
    THEN RuntimeErrorResult(p.stderr)
    ELSE SuccessResult(f, p.stdout)

\* Mutant: the failure result keeps the measurements taken so far.
ClassificationKeepsMeasurements(p, f) ==
    IF p.returncode # 0
    THEN [error |-> << "Runtime Error:\n" >> \o Strip(p.stderr),
          runtime |-> Round4(f.end_time - f.start_time),
          memory |-> f.memory_used \div 1024]
    ELSE SuccessResult(f, p.stdout)

\* Mutant: a run counts as failed when the child wrote to stderr.
ClassificationByStderr(p, f) ==
    IF p.stderr # <<>>
    THEN RuntimeErrorResult(p.stderr)
    ELSE SuccessResult(f, p.stdout)

\* The value returned after a completed run; lines 164-171.
Classification(p, f) ==
    IF p.returncode # 0
    THEN RuntimeErrorResult(p.stderr)
    ELSE SuccessResult(f, p.stdout)

\* The classes that `except Exception` catches.
ExceptionClasses == {"TimeoutExpired", "FileNotFoundError", "PermissionError", "OSError"}

\* Mutant: the handler without its last clause, `except Exception`.
HandlerWithoutCatchAll(e) ==
    CASE e.type = "TimeoutExpired" -> TimeoutResult
      [] e.type = "FileNotFoundError" -> NotFoundResult
      [] OTHER -> NoResult

\* The except clauses of execute_code_safely, in order; NoResult: none matches.
Handler(e) ==
    CASE e.type = "TimeoutExpired" -> TimeoutResult
      [] e.type = "FileNotFoundError" -> NotFoundResult
      [] e.type \in ExceptionClasses -> UnexpectedResult(e)
      [] OTHER -> NoResult

\* The outcome kind a returned value stands for.
Status(r) ==
    CASE r = NoResult -> "None"
      [] "error" \notin DOMAIN r -> "Success"
      [] r = UnsupportedResult -> "UnsupportedLanguage"
      [] r = TimeoutResult -> "Timeout"
      [] r = NotFoundResult -> "NotFound"
      [] r.error[1] = "Runtime Error:\n" -> "RuntimeError"
      [] OTHER -> "InternalError"

\* ------------------------------------------------------------- tracemalloc
\* tracemalloc.get_traced_memory()[1]
TracedPeak == IF tracing THEN peak ELSE 0

\* Mutant: TimeoutExpired is raised without killing the child.
LeaveRunning(p) == p

\* subprocess.run on TimeoutExpired: process.kill(); process.wait().
KillAndReap(p) == [p EXCEPT !.state = "reaped"]

\* ------------------------------------------------------------------- Init
Init ==
    /\ platform \in Platforms
    /\ tracing = FALSE
    /\ traced = [t \in Threads |-> 0]
    /\ peak = 0
    /\ pc = [t \in Threads |-> "idle"]
    /\ req = [t \in Threads |-> NoReq]
    /\ frame = [t \in Threads |-> NoFrame]
    /\ proc = [t \in Threads |-> NoProc]
    /\ fate = [t \in Threads |-> "none"]
    /\ result = [t \in Threads |-> NoResult]
    /\ outcomes = [t \in Threads |-> 0]
    /\ escaped = [t \in Threads |-> FALSE]
    /\ spawned = [t \in Threads |-> 0]
    /\ leaked = FALSE
    /\ operator_log = {}
    /\ clock = 0
    /\ file = EmptyLeaderboard
    /\ requests = 0
    /\ apc = [t \in Threads |-> "idle"]
    /\ snippet = [t \in Threads |-> NoSnippet]
    /\ new_entry = [t \in Threads |-> NoEntry]
    /\ leaderboard = [t \in Threads |-> <<>>]
    /\ cpc = "off"
    /\ cframe = NoCleanup

\* startup_event, lines 282-284: the cleanup task is created and will first
\* sleep.  Nothing is written to the log.  Requests are served only after it.
Started == cpc # "off"

Startup ==
    /\ cpc = "off"
    /\ cpc' = "sleep"
    /\ UNCHANGED execVars
    /\ UNCHANGED << operator_log, clock, file, requests, apc, snippet,
                    new_entry, leaderboard, cframe >>

\* return value: the value is handed to the caller and the memory the call
\* allocated in the supervisor is freed.  The locals and the child's record
\* are kept, as history, until the thread's next call.
Returns(t, value) ==
    /\ pc' = [pc EXCEPT ![t] = "done"]
    /\ result' = [result EXCEPT ![t] = value]
    /\ outcomes' = [outcomes EXCEPT ![t] = @ + 1]
    /\ UNCHANGED escaped

\* Mutant: a timed-out run is tried once more.
RaisesWithRetry(t, e) ==
    IF e.type = "TimeoutExpired" /\ spawned[t] < 2
    THEN /\ pc' = [pc EXCEPT ![t] = "spawn"]
         /\ UNCHANGED << result, outcomes, escaped >>
    ELSE Returns(t, Handler(e))

\* An exception raised inside the try block reaches the except clauses; one
\* that no clause matches leaves the call.
Raises(t, e) ==
    IF Handler(e) = NoResult
    THEN /\ pc' = [pc EXCEPT ![t] = "done"]
         /\ escaped' = [escaped EXCEPT ![t] = TRUE]
         /\ UNCHANGED << result, outcomes >>
    ELSE Returns(t, Handler(e))

\* ---------------------------------------------------------------- actions
\* A request thread enters execute_code_safely(code, language); lines 123-126.
Call(t) ==
    /\ UNCHANGED boardVars
    /\ Started
    /\ pc[t] \in {"idle", "done"}
    /\ \E r \in Requests :
        /\ req' = [req EXCEPT ![t] = r]
        /\ IF ~IsRegistered(r.language)
           THEN /\ pc' = [pc EXCEPT ![t] = "done"]
                /\ result' = [result EXCEPT ![t] = UnsupportedResult]
                /\ outcomes' = [outcomes EXCEPT ![t] = 1]
           ELSE /\ pc' = [pc EXCEPT ![t] = "start"]
                /\ result' = [result EXCEPT ![t] = NoResult]
                /\ outcomes' = [outcomes EXCEPT ![t] = 0]
    /\ proc' = [proc EXCEPT ![t] = NoProc]
    /\ frame' = [frame EXCEPT ![t] = NoFrame]
    /\ fate' = [fate EXCEPT ![t] = "none"]
    /\ escaped' = [escaped EXCEPT ![t] = FALSE]
    /\ spawned' = [spawned EXCEPT ![t] = 0]
    /\ UNCHANGED << platform, tracing, traced, peak, leaked >>

\* tracemalloc.start(); start_time = timeit.default_timer(); lines 128-129.
\* Starting a tracer that is on changes nothing.
StartMeasurement(t) ==
    /\ UNCHANGED boardVars
    /\ pc[t] = "start"
    /\ tracing' = TRUE
    /\ peak' = IF tracing THEN peak ELSE 0
    /\ \E now \in StartTimes :
        frame' = [frame EXCEPT ![t].start_time = now]
    /\ pc' = [pc EXCEPT ![t] = "spawn"]
    /\ UNCHANGED << platform, traced, req, proc, fate, result, outcomes, escaped,
                    spawned, leaked >>

\* subprocess.run(...) cannot find the launch binary: FileNotFoundError,
\* caught at line 175.
SpawnNotFound(t) ==
    /\ UNCHANGED boardVars
    /\ pc[t] = "spawn"
    /\ Dispatch(req[t].code, req[t].language, platform).argv # <<>>
    /\ fate' = [fate EXCEPT ![t] = "missing"]
    /\ Raises(t, [type |-> "FileNotFoundError", text |-> ""])
    /\ leaked' = (leaked \/ tracing)
    /\ UNCHANGED << platform, tracing, traced, peak, req, frame, proc, spawned >>

\* subprocess.run(...) fails with an unexpected OS error, caught at line 177.
SpawnFails(t) ==
    /\ UNCHANGED boardVars
    /\ pc[t] = "spawn"
    /\ Dispatch(req[t].code, req[t].language, platform).argv # <<>>
    /\ fate' = [fate EXCEPT ![t] = "oserror"]
    /\ \E e \in UnexpectedErrors : Raises(t, e)
    /\ leaked' = (leaked \/ tracing)
    /\ UNCHANGED << platform, tracing, traced, peak, req, frame, proc, spawned >>

\* subprocess.run(...) starts the child: fork, preexec_fn in the child, exec;
\* lines 135-158.  What the supervisor allocates is traced if the tracer is on.
Spawn(t) ==
    /\ UNCHANGED boardVars
    /\ pc[t] = "spawn"
    /\ LET d == Dispatch(req[t].code, req[t].language, platform)
           a == AllocBytes
       IN  IF d.argv = <<>>
           THEN /\ Returns(t, UnsupportedResult)
                /\ UNCHANGED << traced, peak, proc, fate, spawned >>
           ELSE /\ spawned' = [spawned EXCEPT ![t] = @ + 1]
                /\ proc' = [proc EXCEPT ![t] =
                        [state |-> "running", argv |-> d.argv, rlimits |-> d.rlimits]]
                /\ fate' = [fate EXCEPT ![t] = "launched"]
                /\ traced' = IF tracing THEN [traced EXCEPT ![t] = @ + a] ELSE traced
                /\ peak' = IF tracing THEN Max(peak, SumOver(traced', Threads)) ELSE peak
                /\ pc' = [pc EXCEPT ![t] = "wait"]
                /\ UNCHANGED << result, outcomes, escaped >>
    /\ UNCHANGED << platform, tracing, req, frame, leaked >>

\* The child ends by itself before the deadline; subprocess.run returns and
\* end_time = timeit.default_timer() is read; lines 136-160.
ChildExit(t) ==
    /\ UNCHANGED boardVars
    /\ pc[t] = "wait"
    /\ proc[t].state = "running"
    /\ \E f \in ExitFates :
        /\ proc' = [proc EXCEPT ![t] =
                [state |-> "exited", argv |-> proc[t].argv,
                 rlimits |-> proc[t].rlimits, returncode |-> f.returncode,
                 stdout |-> f.stdout, stderr |-> f.stderr]]
        /\ frame' = [frame EXCEPT ![t].end_time = frame[t].start_time + f.duration]
    /\ pc' = [pc EXCEPT ![t] = "read"]
    /\ UNCHANGED << platform, tracing, traced, peak, req, fate, result, outcomes,
                    escaped, spawned, leaked >>

\* The child is still running when timeout=2 elapses: subprocess.run kills
\* and reaps it and raises TimeoutExpired, caught at line 173.
Deadline(t) ==
    /\ UNCHANGED boardVars
    /\ pc[t] = "wait"
    /\ proc[t].state = "running"
    /\ proc' = [proc EXCEPT ![t] = KillAndReap(proc[t])]
    /\ fate' = [fate EXCEPT ![t] = "deadline"]
    /\ Raises(t, [type |-> "TimeoutExpired", text |-> ""])
    /\ traced' = [traced EXCEPT ![t] = 0]
    /\ leaked' = (leaked \/ tracing)
    /\ UNCHANGED << platform, tracing, peak, req, frame, spawned >>

\* memory_used = tracemalloc.get_traced_memory()[1]; line 161.
ReadMeasurement(t) ==
    /\ UNCHANGED boardVars
    /\ pc[t] = "read"
    /\ frame' = [frame EXCEPT ![t].memory_used = TracedPeak]
    /\ pc' = [pc EXCEPT ![t] = "stop"]
    /\ UNCHANGED << platform, tracing, traced, peak, req, proc, fate, result,
                    outcomes, escaped, spawned, leaked >>

\* tracemalloc.stop(), then the classification and the return; lines 162-171.
\* Stopping the tracer drops every trace, whichever call made it.
StopMeasurement(t) ==
    /\ UNCHANGED boardVars
    /\ pc[t] = "stop"
    /\ tracing' = FALSE
    /\ traced' = [u \in Threads |-> 0]
    /\ peak' = 0
    /\ Returns(t, Classification(proc[t], frame[t]))
    /\ leaked' = FALSE
    /\ UNCHANGED << platform, req, frame, proc, fate, spawned >>

Next ==
    \/ Startup
    \/ \E t \in Threads :
        \/ Call(t)
        \/ StartMeasurement(t)
        \/ SpawnNotFound(t)
        \/ SpawnFails(t)
        \/ Spawn(t)
        \/ ChildExit(t)
        \/ Deadline(t)
        \/ ReadMeasurement(t)
        \/ StopMeasurement(t)

Spec == Init /\ [][Next]_vars

\* The supervisor's own steps: the thread runs on, and the deadline of a
\* running child elapses.  Only the child's own exit is left to the child.
Supervisor(t) ==
    \/ StartMeasurement(t)
    \/ Spawn(t)
    \/ Deadline(t)
    \/ ReadMeasurement(t)
    \/ StopMeasurement(t)

FairSpec == Spec /\ \A t \in Threads : WF_vars(Supervisor(t))

\* ------------------------------------------------- the request handler
\* and the leaderboard: analyze_code, update_leaderboard, cleanup_leaderboard

\* What the memory reading of a call can be: the peak of what the running
\* calls have allocated.
MemoryReadings == { k * AllocBytes : k \in 0..NThreads }

\* What one call of execute_code_safely hands back, and how many children it
\* spawned: the ends of the runs of Spec.
ExecutionOutcomes(language, fates, readings) ==
    IF ~IsRegistered(language)
    THEN { [result |-> UnsupportedResult, spawned |-> 0] }
    ELSE { [result |-> NotFoundResult, spawned |-> 0],
           [result |-> TimeoutResult, spawned |-> 1] }
         \cup { [result |-> UnexpectedResult(e), spawned |-> 0] :
                    e \in UnexpectedErrors }
         \cup { [result |-> Classification(f,
                                [start_time |-> s, end_time |-> s + f.duration,
                                 memory_used |-> m]),
                 spawned |-> 1] : f \in fates, s \in StartTimes, m \in readings }

\* Mutant: only the program text is checked.
IsEmptySubmissionCodeOnly(code, username) == code = <<>>

\* `not code or not username`, line 186.
IsEmptySubmission(code, username) == code = <<>> \/ username = <<>>

\* `"error" in performance`, line 192.
HasError(performance) == "error" \in DOMAIN performance

\* The positions at which analyze_code has answered its request: HTTP 400,
\* the error dict, the full result, or HTTP 500 after an exception.
Answered == {"rejected", "error", "responded", "failed"}

\* POST /analyze reaches analyze_code on a pool thread; lines 181-187.
Analyze(t) ==
    /\ Started
    /\ apc[t] \in {"idle"} \cup Answered
    /\ requests < MaxRequests
    /\ requests' = requests + 1
    /\ \E body \in Submissions :
        LET code == Strip(body.code)
            language == Lower(body.language)
            username == Strip(body.username)
        IN  IF IsEmptySubmission(code, username)
            THEN /\ apc' = [apc EXCEPT ![t] = "rejected"]
                 /\ snippet' = [snippet EXCEPT ![t] = NoSnippet]
            ELSE /\ apc' = [apc EXCEPT ![t] = "execute"]
                 /\ snippet' = [snippet EXCEPT ![t] =
                        [username |-> username, code |-> code,
                         language |-> language]]
    /\ result' = [result EXCEPT ![t] = NoResult]
    /\ spawned' = [spawned EXCEPT ![t] = 0]
    /\ new_entry' = [new_entry EXCEPT ![t] = NoEntry]
    /\ leaderboard' = [leaderboard EXCEPT ![t] = <<>>]
    /\ UNCHANGED << platform, tracing, traced, peak, pc, req, frame, proc, fate,
                    outcomes, escaped, leaked >>
    /\ UNCHANGED << operator_log, clock, file, cpc, cframe >>

\* performance = execute_code_safely(code, language) and the test of its
\* result; lines 190-193.  The call is taken as one step.
Execute(t) ==
    /\ apc[t] = "execute"
    /\ \E o \in ExecutionOutcomes(snippet[t].language, BoardFates, {AllocBytes}) :
        /\ result' = [result EXCEPT ![t] = o.result]
        /\ spawned' = [spawned EXCEPT ![t] = o.spawned]
        /\ apc' = [apc EXCEPT ![t] =
                IF HasError(o.result) THEN "error" ELSE "update"]
    /\ UNCHANGED << platform, tracing, traced, peak, pc, req, frame, proc, fate,
                    outcomes, escaped, leaked >>
    /\ UNCHANGED << operator_log, clock, file, requests, snippet, new_entry,
                    leaderboard, cpc, cframe >>

\* The scores, then update_leaderboard up to the call of save_leaderboard;
\* lines 196-263.  json.load raises on a file that does not parse, and the
\* exception leaves analyze_code.
LoadAndAppend(t) ==
    /\ apc[t] = "update"
    /\ IF ~file.parses
       THEN /\ apc' = [apc EXCEPT ![t] = "failed"]
            /\ UNCHANGED << new_entry, leaderboard >>
       ELSE LET entry == [username |-> snippet[t].username,
                          code |-> snippet[t].code,
                          language |-> snippet[t].language,
                          score |-> TotalScore(snippet[t].code),
                          runtime |-> result[t].runtime,
                          memory |-> result[t].memory,
                          timestamp |-> clock]
            IN  /\ new_entry' = [new_entry EXCEPT ![t] = entry]
                /\ leaderboard' = [leaderboard EXCEPT ![t] =
                        TopThree(SortByScore(Append(file.entries, entry)))]
                /\ apc' = [apc EXCEPT ![t] = "open"]
    /\ UNCHANGED execVars
    /\ UNCHANGED << operator_log, clock, file, requests, snippet, cpc, cframe >>

\* save_leaderboard: open(LEADERBOARD_FILE, "w"); line 243.
OpenForSave(t) ==
    /\ apc[t] = "open"
    /\ file' = Truncated
    /\ apc' = [apc EXCEPT ![t] = "write"]
    /\ UNCHANGED execVars
    /\ UNCHANGED << operator_log, clock, requests, snippet, new_entry,
                    leaderboard, cpc, cframe >>

\* save_leaderboard: json.dump and the close, line 244; then analyze_code
\* returns its result, lines 209-217.
Save(t) ==
    /\ apc[t] = "write"
    /\ file' = Written(file, leaderboard[t])
    /\ apc' = [apc EXCEPT ![t] = "responded"]
    /\ UNCHANGED execVars
    /\ UNCHANGED << operator_log, clock, requests, snippet, new_entry,
                    leaderboard, cpc, cframe >>

\* cleanup_leaderboard wakes from asyncio.sleep, loads the file and filters
\* it; lines 268-277.  With nothing to remove it sleeps again; an exception of
\* json.load ends the task.
CleanupLoad ==
    /\ cpc = "sleep"
    /\ IF ~file.parses
       THEN /\ cpc' = "dead"
            /\ UNCHANGED cframe
       ELSE LET kept == Unexpired(file.entries, clock)
            IN  IF Len(kept) # Len(file.entries)
                THEN /\ cpc' = "open"
                     /\ cframe' = [leaderboard |-> file.entries,
                                   new_leaderboard |-> kept]
                ELSE UNCHANGED << cpc, cframe >>
    /\ UNCHANGED execVars
    /\ UNCHANGED << operator_log, clock, file, requests, apc, snippet,
                    new_entry, leaderboard >>

\* cleanup_leaderboard, save_leaderboard: open(LEADERBOARD_FILE, "w").
CleanupOpen ==
    /\ cpc = "open"
    /\ file' = Truncated
    /\ cpc' = "write"
    /\ UNCHANGED execVars
    /\ UNCHANGED << operator_log, clock, requests, apc, snippet, new_entry,
                    leaderboard, cframe >>

\* cleanup_leaderboard, save_leaderboard: json.dump and the close; then the
\* line written to standard output, line 279, and the next sleep.
CleanupSave ==
    /\ cpc = "write"
    /\ file' = Written(file, cframe.new_leaderboard)
    /\ operator_log' = operator_log \cup
            { << "Cleanup: Removed",
                 Len(cframe.leaderboard) - Len(cframe.new_leaderboard),
                 "old entries" >> }
    /\ cpc' = "sleep"
    /\ cframe' = NoCleanup
    /\ UNCHANGED execVars
    /\ UNCHANGED << clock, requests, apc, snippet, new_entry, leaderboard >>

\* Days pass, while no request is being served and no save is under way.
Tick ==
    /\ \A t \in Threads : apc[t] \in {"idle"} \cup Answered
    /\ cpc \notin {"open", "write"}
    /\ \E d \in Days : d > clock /\ clock' = d
    /\ UNCHANGED execVars
    /\ UNCHANGED << operator_log, file, requests, apc, snippet, new_entry,
                    leaderboard, cpc, cframe >>

BoardNext ==
    \/ Startup
    \/ Tick
    \/ CleanupLoad
    \/ CleanupOpen
    \/ CleanupSave
    \/ \E t \in Threads :
        \/ Analyze(t)
        \/ Execute(t)
        \/ LoadAndAppend(t)
        \/ OpenForSave(t)
        \/ Save(t)

BoardSpec == Init /\ [][BoardNext]_vars

\* ======================================================================
\* Properties
\* ======================================================================
Registry == DOMAIN LANGUAGE_COMMANDS

InCall(t) == pc[t] \notin {"idle"}

Done(t) == pc[t] = "done"

\* C1: a call with a language that is no key of LANGUAGE_COMMANDS has returned
\* {"error": "Unsupported language"} at once, whatever the snippet, and has
\* spawned no child process.
C1_UnsupportedSpawnsNothing ==
    \A t \in Threads :
        (InCall(t) /\ req[t].language \notin Registry) =>
            /\ Done(t)
            /\ result[t] = UnsupportedResult
            /\ spawned[t] = 0
            /\ proc[t].state = "none"

C1_Witness ==
    \E t \in Threads, u \in Threads :
        /\ t # u
        /\ Done(t) /\ req[t] = [code |-> "print(2+2)", language |-> "ruby"]
        /\ Done(u) /\ req[u] = [code |-> "while True: pass", language |-> "ruby"]
        /\ result[t] = UnsupportedResult /\ result[u] = UnsupportedResult

\* C2: no exception leaves execute_code_safely and a call returns exactly one
\* value: none while it runs, one structured result once it is over, for every
\* child behaviour (exit 0, non-zero exit, deadline, missing binary, OS error).
C2_ExactlyOneOutcome ==
    \A t \in Threads :
        /\ ~escaped[t]
        /\ outcomes[t] <= 1
        /\ Done(t) => (outcomes[t] = 1 /\ result[t] # NoResult
                       /\ DOMAIN result[t] \in {{"error"}, {"runtime", "memory", "output"}})
        /\ (InCall(t) /\ ~Done(t)) => (outcomes[t] = 0 /\ result[t] = NoResult)

C2_Witness ==
    \E t \in Threads, u \in Threads :
        /\ Done(t) /\ fate[t] = "oserror" /\ outcomes[t] = 1
        /\ Done(u) /\ fate[u] = "deadline" /\ outcomes[u] = 1

\* C3: on a host where the limiter is applied (Linux), a child of any
\* registered language that runs or ran user code has the CPU-time and
\* address-space limits of limit_resources set.
C3_LimitsBeforeUserCode ==
    platform = "Linux" =>
        \A t \in Threads :
            proc[t].state # "none" => proc[t].rlimits = limit_resources

\* C4: a call whose child was still running at the deadline returns Timeout,
\* never Success, with the child killed and reaped; and a call that waits for
\* its child returns in the end, even if the child never exits by itself.
C4_TimeoutKillsAndReturns ==
    /\ [](\A t \in Threads :
            /\ (Done(t) /\ fate[t] = "deadline") => result[t] = TimeoutResult
            /\ (Done(t) /\ result[t] = TimeoutResult) => proc[t].state = "reaped")
    /\ \A t \in Threads : (pc[t] = "wait") ~> Done(t)

C4_Witness ==
    \E t \in Threads :
        Done(t) /\ fate[t] = "deadline" /\ result[t] = TimeoutResult
                /\ proc[t].state = "reaped"

\* C5: when successful calls run concurrently and no earlier call left the
\* tracer on, the peak a call reads for its report is the peak of its own
\* allocations, the value it reads when it runs alone.
C5_MemoryIsOwn ==
    [][\A t \in Threads :
        (pc[t] = "read" /\ pc'[t] = "stop" /\ ~leaked /\ proc[t].returncode = 0) =>
            frame'[t].memory_used = AllocBytes]_vars

\* C6: whenever no call is in progress the memory tracer is stopped, whatever
\* the outcomes of the calls made so far.
C6_TracerStoppedAtReturn ==
    (\A t \in Threads : pc[t] \in {"idle", "done"}) => ~tracing

IsWhitespace(s) == \A i \in DOMAIN s : s[i] \in {" ", "\n", "\t"}

\* o is s without its leading and trailing whitespace.
IsTrimOf(o, s) ==
    \E i \in 1..(Len(s) + 1), j \in 0..Len(s) :
        /\ o = SubSeq(s, i, j)
        /\ IsWhitespace(SubSeq(s, 1, i - 1))
        /\ IsWhitespace(SubSeq(s, j + 1, Len(s)))
        /\ o # <<>> => (o[1] \notin {" ", "\n", "\t"} /\ o[Len(o)] \notin {" ", "\n", "\t"})

\* r (in 1e-4 s) is u (in 1e-5 s) rounded to 4 decimals, ties to even.
IsRounded4(r, u) ==
    /\ 10 * r - u <= 5 /\ u - 10 * r <= 5
    /\ (10 * r - u = 5 \/ u - 10 * r = 5) => r % 2 = 0

\* C7: for a registered language the result follows the ordered policy:
\* missing binary: NotFound; else deadline passed: Timeout; else non-zero exit
\* code: "Runtime Error:\n" followed by the trimmed stderr; else Success with
\* the trimmed stdout, the elapsed time rounded to 4 decimals and the peak read
\* from the tracer in whole KiB, truncated.
C7_ClassificationPolicy ==
    \A t \in Threads :
        (Done(t) /\ req[t].language \in Registry /\ fate[t] # "oserror") =>
            LET r == result[t]
                p == proc[t]
                f == frame[t]
            IN  CASE fate[t] = "missing" -> Status(r) = "NotFound"
                  [] fate[t] = "deadline" -> Status(r) = "Timeout"
                  [] p.returncode # 0 ->
                        /\ DOMAIN r = {"error"}
                        /\ Head(r.error) = "Runtime Error:\n"
                        /\ IsTrimOf(Tail(r.error), p.stderr)
                  [] OTHER ->
                        /\ DOMAIN r = {"runtime", "memory", "output"}
                        /\ IsTrimOf(r.output, p.stdout)
                        /\ IsRounded4(r.runtime, f.end_time - f.start_time)
                        /\ r.memory * 1024 <= f.memory_used
                        /\ f.memory_used < (r.memory + 1) * 1024

C7_Witness ==
    \E t \in Threads, u \in Threads :
        /\ Done(t) /\ proc[t].state = "exited" /\ proc[t].returncode = -24
        /\ Status(result[t]) = "RuntimeError"
        /\ Done(u) /\ proc[u].state = "exited" /\ proc[u].returncode = 0
        /\ result[u].output = << "4" >> /\ result[u].runtime = 1234

\* C8: any two InternalError results are the same value, whatever the text of
\* the exceptions behind them.
C8_InternalErrorIsGeneric ==
    \A t \in Threads, u \in Threads :
        (Done(t) /\ Done(u) /\ fate[t] = "oserror" /\ fate[u] = "oserror") =>
            result[t] = result[u]

\* C9: the argument vector of a spawned child is the LANGUAGE_COMMANDS entry of
\* the requested language, followed by the snippet for python and javascript.
C9_ArgvFromRegistry ==
    \A t \in Threads :
        proc[t].state # "none" =>
            proc[t].argv =
                LANGUAGE_COMMANDS[req[t].language] \o
                    (IF req[t].language \in {"python", "javascript"}
                     THEN << req[t].code >> ELSE <<>>)

\* C10: a result carries a non-zero runtime or memory value only if the child
\* exited with code 0 before the deadline (Success); every error result
\* carries neither, or zero.
C10_MeasurementsOnlyOnSuccess ==
    \A t \in Threads :
        Done(t) =>
            LET r == result[t]
                success == fate[t] = "launched" /\ proc[t].state = "exited"
                           /\ proc[t].returncode = 0
            IN  /\ ~success =>
                    /\ "runtime" \in DOMAIN r => r.runtime = 0
                    /\ "memory" \in DOMAIN r => r.memory = 0
                /\ success => {"runtime", "memory"} \subseteq DOMAIN r

C10_Witness ==
    \E t \in Threads, u \in Threads :
        /\ Done(t) /\ proc[t].state = "exited" /\ proc[t].returncode = 1
        /\ DOMAIN result[t] = {"error"} /\ frame[t].memory_used > 0
        /\ Done(u) /\ Status(result[u]) = "Success" /\ result[u].memory > 0

\* The positions of a call: Pending (start, spawn), Running (wait, read,
\* stop), terminal (done); and the steps between them.
PcSteps ==
    { << "idle", "start" >>, << "idle", "done" >>, << "done", "start" >>,
      << "start", "spawn" >>, << "spawn", "wait" >>, << "spawn", "done" >>,
      << "wait", "read" >>, << "wait", "done" >>, << "read", "stop" >>,
      << "stop", "done" >> }

RequestState(t) ==
    << pc[t], req[t], frame[t], proc[t], fate[t], result[t], outcomes[t],
       escaped[t], spawned[t] >>

\* C11: a call goes Pending, Running, one terminal outcome and is never
\* retried: it spawns at most one child (none before it runs, one while it
\* runs), its one outcome is among ExecutionOutcomes, and once the outcome
\* is produced nothing of the request changes until the thread's next call.
C11_OneSpawnNoRetry ==
    /\ [](\A t \in Threads :
            /\ spawned[t] <= 1
            /\ pc[t] \in {"start", "spawn"} => (spawned[t] = 0 /\ proc[t].state = "none")
            /\ pc[t] \in {"wait", "read", "stop"} => spawned[t] = 1
            /\ Done(t) =>
                /\ outcomes[t] = 1
                /\ [result |-> result[t], spawned |-> spawned[t]] \in
                        ExecutionOutcomes(req[t].language, ExitFates,
                                          MemoryReadings))
    /\ [][\A t \in Threads :
            /\ pc'[t] # pc[t] => << pc[t], pc'[t] >> \in PcSteps
            /\ Done(t) => (RequestState(t)' = RequestState(t) \/ Call(t))]_vars

C11_Witness ==
    \E t \in Threads, u \in Threads :
        /\ Done(t) /\ fate[t] = "deadline" /\ spawned[t] = 1
        /\ Done(u) /\ fate[u] = "missing" /\ spawned[u] = 0

\* C12: a child that exits non-zero or is killed by a signal (negative return
\* code, as after a breach of RLIMIT_CPU or RLIMIT_AS) gives RuntimeError, no
\* exception leaves the call, the thread can call again, and a child that
\* exits 0 before the deadline gives Success with its own trimmed stdout,
\* whatever calls ended before it.
C12_FailureThenUsable ==
    \A t \in Threads :
        /\ ~escaped[t]
        /\ (Started /\ pc[t] \in {"idle", "done"}) => ENABLED Call(t)
        /\ (Done(t) /\ fate[t] = "launched" /\ proc[t].state = "exited") =>
            IF proc[t].returncode # 0
            THEN Status(result[t]) = "RuntimeError"
            ELSE /\ Status(result[t]) = "Success"
                 /\ IsTrimOf(result[t].output, proc[t].stdout)

\* A state that the run in which t's call ends before u's begins reaches.
C12_Witness ==
    \E t \in Threads, u \in Threads :
        /\ Done(t) /\ proc[t].state = "exited" /\ proc[t].returncode = -24
        /\ proc[t].rlimits = limit_resources
        /\ Status(result[t]) = "RuntimeError"
        /\ Done(u) /\ proc[u].state = "exited" /\ proc[u].returncode = 0
        /\ result[u].output = << "a", " ", "b" >> /\ result[u].memory = 1
\* A line of the log that tells the operator the limits are not applied.
IsLimiterReport(m) == m[1] = "resource limits are not applied on this platform"

\* C13: on a platform where the limiter is skipped (macOS, Windows) no child
\* runs without limits unless the log already holds a report of it (the log
\* only grows, and startup precedes every call).
C13_NoOpLimiterReported ==
    \A t \in Threads :
        (platform \in {"Darwin", "Windows"} /\ proc[t].state # "none"
            /\ proc[t].rlimits = NoLimits) =>
            \E m \in operator_log : IsLimiterReport(m)
\* Is e one of the entries of the list lb.
IsIn(e, lb) == \E i \in 1..Len(lb) : lb[i] = e

\* C14: whatever the interleaving of uploads and cleanups from the empty
\* leaderboard, the list the file holds has at most 3 entries, in order of
\* non-increasing score.
C14_TopThreeSorted ==
    file.parses =>
        /\ Len(file.entries) <= 3
        /\ \A i \in 1..Len(file.entries), j \in 1..Len(file.entries) :
                i < j => file.entries[i].score >= file.entries[j].score

\* Three stored entries of different scores after a fourth was cut off.
C14_Witness ==
    /\ file.parses /\ Len(file.entries) = 3
    /\ file.entries[1].score > file.entries[3].score
    /\ \E t \in Threads :
        /\ apc[t] = "responded"
        /\ ~IsIn(new_entry[t], file.entries)
        /\ Len(leaderboard[t]) = 3
\* No request is in progress and the cleanup task is not saving.
Quiescent ==
    /\ \A t \in Threads : apc[t] \in {"idle"} \cup Answered
    /\ cpc \notin {"open", "write"}

\* C15: uploads are atomic.  Once the requests have finished (and no cleanup
\* has saved anything), the file parses and holds every entry a successful
\* request submitted, unless three entries of at least its score are stored.
C15_UpdateIsAtomic ==
    (Quiescent /\ operator_log = {}) =>
        /\ file.parses
        /\ \A t \in Threads :
            apc[t] = "responded" =>
                \/ IsIn(new_entry[t], file.entries)
                \/ /\ Len(file.entries) = 3
                   /\ file.entries[3].score >= new_entry[t].score
\* Was the entry written within the last EXPIRATION_DAYS days.
IsFresh(e) == e.timestamp > clock - EXPIRATION_DAYS

\* C16: the cleanup's save removes expired entries only.  When the task
\* opens the file to save (which erases what is stored), every stored entry
\* of the last 7 days is in the list the task then writes.
C16_CleanupKeepsFresh ==
    [][(cpc = "open" /\ cpc' = "write") =>
            \A i \in 1..Len(file.entries) :
                IsFresh(file.entries[i]) =>
                    IsIn(file.entries[i], cframe.new_leaderboard)]_vars
\* The list lb with e put in at place k.
InsertAt(lb, k, e) == SubSeq(lb, 1, k - 1) \o << e >> \o SubSeq(lb, k, Len(lb))

\* C17: a request changes the leaderboard only after a successful execution.
\* A request that got past the check of line 186 has a non-empty trimmed
\* program and username; a rejected one has spawned nothing and built
\* nothing; one whose execution gave an error has built nothing; only a
\* request with a Success result, or the cleanup, changes the file; and the
\* list a request saves is the loaded list with its one entry put in, cut to
\* three.
C17_LeaderboardOnlyOnSuccess ==
    /\ [](\A t \in Threads :
            /\ apc[t] \in {"execute", "update", "open", "write", "error",
                           "responded", "failed"} =>
                    /\ snippet[t].code # <<>> /\ snippet[t].username # <<>>
                    /\ Strip(snippet[t].code) = snippet[t].code
                    /\ Strip(snippet[t].username) = snippet[t].username
            /\ apc[t] = "rejected" =>
                    /\ spawned[t] = 0 /\ result[t] = NoResult
                    /\ new_entry[t] = NoEntry /\ leaderboard[t] = <<>>
            /\ apc[t] = "error" =>
                    /\ Status(result[t]) # "Success"
                    /\ new_entry[t] = NoEntry /\ leaderboard[t] = <<>>
            /\ apc[t] \in {"update", "open", "write", "responded"} =>
                    Status(result[t]) = "Success")
    /\ [][/\ file' # file =>
                \/ cpc' # cpc
                \/ \E t \in Threads :
                    /\ apc[t] \in {"open", "write"} /\ apc'[t] # apc[t]
                    /\ Status(result[t]) = "Success"
          /\ \A t \in Threads :
                (apc[t] = "update" /\ apc'[t] = "open") =>
                    /\ new_entry'[t].username = snippet[t].username
                    /\ new_entry'[t].code = snippet[t].code
                    /\ \E k \in 1..(Len(file.entries) + 1) :
                        leaderboard'[t] =
                            TopThree(InsertAt(file.entries, k, new_entry'[t]))]_vars

\* One entry stored by a successful request; after it, a rejected request
\* and one whose child failed have left the file as it was.
C17_Witness ==
    /\ requests = 3 /\ file.parses /\ Len(file.entries) = 1
    /\ \E t \in Threads, u \in Threads :
        /\ apc[t] = "rejected"
        /\ apc[u] = "error" /\ spawned[u] = 1
        /\ Status(result[u]) = "RuntimeError"
=============================================================================
